---- MODULE Spec2Model ----
(***************************************************************************)
(* Model of the AMM contract of src/amm-contract/src/lib.rs.               *)
(*                                                                         *)
(* The contract keeps two reserves (a_ticker, b_ticker), the metadata of   *)
(* the two tokens and the cached product `ratio`.  Every public method is  *)
(* one receipt: it runs to completion or panics, and a panic discards its  *)
(* writes and the promises it created.  A promise `p.then(cb)` makes the   *)
(* host run cb as a later receipt once p has resolved, whatever p's        *)
(* result; cb sees the result only if it reads it (`#[callback]`).         *)
(*                                                                         *)
(* Scaling.  Balance is u128 and the seeds are 4*10^22 and 3*10^20; TLC    *)
(* has 32-bit integers, so the model keeps the arithmetic and scales the   *)
(* numbers: the word is U128 = 2^7 and the seeds are 40 and 30.  As in the *)
(* source, the product of the seeds exceeds the word, 10^d overflows the   *)
(* word for large d and 10^d = 0 (mod word) for d >= log2(word).           *)
(***************************************************************************)
EXTENDS Integers, Sequences, FiniteSets, TLC

\* ------------------------------------------------------------------ bounds
MaxChains == 1          \* deposit chains started in one behaviour
MaxAmount == 10         \* largest `amount` argument tried
MaxDecimals == 2        \* largest `decimals` a token ledger reports
MaxRaceChains == 2      \* deposit chains started in one behaviour of SpecRace

\* --------------------------------------------------------------- constants
A_TICKER == 40
B_TICKER == 30
U128 == 128

Current == "amm"                       \* env::current_account_id()
Owners == {"alice"}                    \* owner_id given to new
Callers == {"alice", "bob"}            \* accounts calling the owner methods
Users == {"bob"}                       \* accounts calling the other methods
TokenA == "tokA"
TokenB == "tokB"
TokenIds == {TokenA, TokenB}
Amounts == {0, 1, MaxAmount}
RaceAmounts == {1}
DecimalsRange == 0 .. MaxDecimals
Panic == -1                            \* the receipt panicked

VARIABLES
    initialized,          \* env::state_exists()
    overflow_checks,      \* build profile: arithmetic overflow panics / wraps
    owner_id,
    ratio,
    a_ticker, a_contract_id, a_contract_name, a_contract_decimals,
    b_ticker, b_contract_id, b_contract_name, b_contract_decimals,
    info,                 \* the two get_info().then(callback_get_info) promises
    registered,           \* register_amm calls handed to the ledgers
    chains,               \* deposit chains, in order of their request
    last                  \* the receipt executed last and its outcome

pool == <<owner_id, ratio,
          a_ticker, a_contract_id, a_contract_name, a_contract_decimals,
          b_ticker, b_contract_id, b_contract_name, b_contract_decimals>>

vars == <<initialized, overflow_checks, pool, info, registered, chains, last>>

\* ------------------------------------------------------------ u128 helpers
\* x, y are u128 values or Panic; an operand that panicked ends the receipt.
Wrapped(v) ==
    IF v >= 0 /\ v < U128 THEN v
    ELSE IF overflow_checks THEN Panic
    ELSE v % U128

Add(x, y) == IF x = Panic \/ y = Panic THEN Panic ELSE Wrapped(x + y)

Sub(x, y) == IF x = Panic \/ y = Panic THEN Panic ELSE Wrapped(x - y)

Mul(x, y) == IF x = Panic \/ y = Panic THEN Panic ELSE Wrapped(x * y)

\* a division whose zero divisor yields 0 instead of a panic
DivZeroIsZero(x, y) ==
    IF x = Panic \/ y = Panic THEN Panic
    ELSE IF y = 0 THEN 0
    ELSE x \div y

\* integer division: a zero divisor panics in every build
Div(x, y) ==
    IF x = Panic \/ y = Panic THEN Panic
    ELSE IF y = 0 THEN Panic
    ELSE x \div y

RECURSIVE Pow10(_)
\* 10_u128.pow(d as u32)
Pow10(d) == IF d = 0 THEN 1 ELSE Mul(Pow10(d - 1), 10)


\* ------------------------------------------------------------ calc_ratio
\* the product of the reserves, not normalized by the decimals
RawProduct(at, ad, bt, bd) == Mul(at, bt)

\* a_num * b_num of calc_ratio, or Panic
calc_ratio(at, ad, bt, bd) == Mul(Div(at, Pow10(ad)), Div(bt, Pow10(bd)))

\* ------------------------------------------------------- deposit quotes
\* The locals of deposit_a for `amount`, from the current Pool State.
QuoteA(amount) ==
    LET decimal == Pow10(a_contract_decimals)
        a_amount == Mul(amount, decimal)
        a_ticker_after == Add(a_amount, a_ticker)
        b_ticker_after == Mul(Div(ratio, Div(a_ticker_after, decimal)),
                              Pow10(b_contract_decimals))
        b_amount == Sub(b_ticker, b_ticker_after)
    IN  [debit |-> a_amount, a_after |-> a_ticker_after,
         b_after |-> b_ticker_after, payout |-> b_amount,
         divisor |-> Div(a_ticker_after, decimal),
         panic |-> b_amount = Panic]

\* The locals of deposit_b for `amount`, from the current Pool State.
QuoteB(amount) ==
    LET decimal == Pow10(b_contract_decimals)
        b_amount == Mul(amount, decimal)
        b_ticker_after == Add(b_amount, b_ticker)
        a_ticker_after == Mul(Div(ratio, Div(b_ticker_after, decimal)),
                              Pow10(a_contract_decimals))
        a_amount == Sub(a_ticker, a_ticker_after)
    IN  [debit |-> b_amount, a_after |-> a_ticker_after,
         b_after |-> b_ticker_after, payout |-> a_amount,
         divisor |-> Div(b_ticker_after, decimal),
         panic |-> a_amount = Panic]

\* The locals of deposit_a_by_owner / deposit_b_by_owner.
OwnerQuoteA(amount) ==
    LET a_amount == Mul(amount, Pow10(a_contract_decimals))
        a_ticker_after == Add(a_amount, a_ticker)
    IN  [debit |-> a_amount, a_after |-> a_ticker_after, b_after |-> b_ticker,
         payout |-> 0, divisor |-> 1, panic |-> a_ticker_after = Panic]

OwnerQuoteB(amount) ==
    LET b_amount == Mul(amount, Pow10(b_contract_decimals))
        b_ticker_after == Add(b_amount, b_ticker)
    IN  [debit |-> b_amount, a_after |-> a_ticker, b_after |-> b_ticker_after,
         payout |-> 0, divisor |-> 1, panic |-> b_ticker_after = Panic]

\* ------------------------------------------------------------ the guards
\* the require! left out
AnyCaller(pred) == TRUE

\* require!(env::predecessor_account_id() == env::current_account_id())
SelfOnly(pred) == pred = Current

\* the require! left out
AnyAccount(pred) == TRUE

\* require!(env::predecessor_account_id() == self.owner_id)
OwnerOnly(pred) == pred = owner_id

\* the contract state is never found
StateNeverExists == FALSE

\* env::state_exists()
state_exists == initialized

\* ----------------------------------------------------------------- state
\* Before new every method panics (PanicOnDefault) and changes nothing; those
\* calls are left out.
NoInfo == [contract_id |-> "", stage |-> "none", result |-> "none"]

Receipt(op, pred, amount, ok) ==
    [op |-> op, pred |-> pred, amount |-> amount, ok |-> ok]

Init ==
    /\ initialized = FALSE
    /\ overflow_checks \in BOOLEAN
    /\ owner_id = ""
    /\ ratio = 0
    /\ a_ticker = 0 /\ a_contract_id = "" /\ a_contract_name = ""
    /\ a_contract_decimals = 0
    /\ b_ticker = 0 /\ b_contract_id = "" /\ b_contract_name = ""
    /\ b_contract_decimals = 0
    /\ info = [s \in {"a", "b"} |-> NoInfo]
    /\ registered = {}
    /\ chains = <<>>
    /\ last = Receipt("deploy", "", 0, TRUE)

\* ------------------------------------------------------------------- new
new(pred, owner, a_id, b_id) ==
    IF state_exists
    THEN /\ last' = Receipt("new", pred, 0, FALSE)
         /\ UNCHANGED <<initialized, overflow_checks, pool, info, registered, chains>>
    ELSE /\ initialized' = TRUE
         /\ owner_id' = owner
         /\ ratio' = 0
         /\ a_ticker' = A_TICKER
         /\ a_contract_id' = a_id
         /\ a_contract_name' = ""
         /\ a_contract_decimals' = 1
         /\ b_ticker' = B_TICKER
         /\ b_contract_id' = b_id
         /\ b_contract_name' = ""
         /\ b_contract_decimals' = 1
         /\ info' = [a |-> [NoInfo EXCEPT !.contract_id = a_id, !.stage = "get_info"],
                     b |-> [NoInfo EXCEPT !.contract_id = b_id, !.stage = "get_info"]]
         /\ registered' = {<<a_id, owner, A_TICKER>>, <<b_id, owner, B_TICKER>>}
         /\ last' = Receipt("new", pred, 0, TRUE)
         /\ UNCHANGED <<overflow_checks, chains>>

\* ------------------------------------------------------ callback_get_info
\* Pool State after the body of callback_get_info; panic if calc_ratio panics.
GetInfoBody(contract_id, name, decimals) ==
    LET an == IF contract_id = a_contract_id THEN name ELSE a_contract_name
        ad == IF contract_id = a_contract_id THEN decimals ELSE a_contract_decimals
        isB == contract_id # a_contract_id /\ contract_id = b_contract_id
        bn == IF isB THEN name ELSE b_contract_name
        bd == IF isB THEN decimals ELSE b_contract_decimals
        r == calc_ratio(a_ticker, ad, b_ticker, bd)
    IN  [ratio |-> r, an |-> an, ad |-> ad, bn |-> bn, bd |-> bd,
         panic |-> r = Panic]

\* callback_get_info(contract_id, #[callback] val).  Either the host runs it
\* for promise s of new once the ledger's get_info has resolved (pred =
\* Current; `resolved` is the promise result: "ok" with val = (name, decimals),
\* or "failed"), or pred calls it directly (s = "none", no promise result).
\* A missing or failed result panics in the #[callback] argument.
callback_get_info(pred, s, resolved, contract_id, name, decimals) ==
    /\ initialized
    /\ IF s = "none" THEN pred # Current /\ resolved = "none"
       ELSE /\ pred = Current
            /\ info[s].stage = "get_info"
            /\ resolved \in {"ok", "failed"}
            /\ contract_id = info[s].contract_id
    /\ LET body == GetInfoBody(contract_id, name, decimals)
           ok == resolved = "ok" /\ SelfOnly(pred) /\ ~body.panic
       IN  /\ IF ok
              THEN /\ a_contract_name' = body.an
                   /\ a_contract_decimals' = body.ad
                   /\ b_contract_name' = body.bn
                   /\ b_contract_decimals' = body.bd
                   /\ ratio' = body.ratio
              ELSE UNCHANGED <<ratio, a_contract_name, a_contract_decimals,
                               b_contract_name, b_contract_decimals>>
           /\ info' = IF s = "none" THEN info
                      ELSE [info EXCEPT ![s].stage = IF ok THEN "done" ELSE "panicked",
                                        ![s].result = resolved]
           /\ last' = Receipt("callback_get_info", pred, 0, ok)
    /\ UNCHANGED <<initialized, overflow_checks, owner_id, a_ticker, a_contract_id,
                   b_ticker, b_contract_id, registered, chains>>

\* ------------------------------------------------------------ the reads
\* the value get_info returns
InfoValue ==
    <<<<a_contract_id, a_contract_name, a_ticker, a_contract_decimals>>,
      <<b_contract_id, b_contract_name, b_ticker, b_contract_decimals>>>>

\* get_info(&self): a view, nothing is written back
get_info(pred) ==
    /\ initialized
    /\ last' = Receipt("get_info", pred, 0, TRUE)
    /\ UNCHANGED <<initialized, overflow_checks, pool, info, registered, chains>>

\* a get_ratio that recomputes the ratio before it returns it
get_ratio_recomputed(pred) ==
    /\ initialized
    /\ LET r == calc_ratio(a_ticker, a_contract_decimals, b_ticker, b_contract_decimals)
       IN  /\ ratio' = IF r = Panic THEN ratio ELSE r
           /\ last' = Receipt("get_ratio", pred, 0, r # Panic)
    /\ UNCHANGED <<initialized, overflow_checks, owner_id,
                   a_ticker, a_contract_id, a_contract_name, a_contract_decimals,
                   b_ticker, b_contract_id, b_contract_name, b_contract_decimals,
                   info, registered, chains>>

\* get_ratio(&self): a view, nothing is written back
get_ratio(pred) ==
    /\ initialized
    /\ last' = Receipt("get_ratio", pred, 0, TRUE)
    /\ UNCHANGED <<initialized, overflow_checks, pool, info, registered, chains>>

\* -------------------------------------------------------- deposit chains
\* a transfer handed to the host without .then(..): no continuation follows
ChainWithoutThen(kind, asset, pred, amount, sender, q, next_contract) ==
    [kind |-> kind, asset |-> asset, pred |-> pred, amount |-> amount,
     sender |-> sender,
     debit |-> q.debit, a_after |-> q.a_after, b_after |-> q.b_after,
     contract_id |-> next_contract, payout |-> q.payout,
     stage |-> "transfer", debit_result |-> "pending", credit_result |-> "none",
     before |-> <<a_ticker, b_ticker, ratio,
                  a_contract_decimals, b_contract_decimals>>]

\* A chain is the promise chain one deposit request creates.  stage:
\*   "debit"      transfer_from(sender -> pool) is with the ledger
\*   "credit"     transfer_from(pool -> receiver) is with the ledger
\*   "committed"  callback_update_tickers wrote the reserves
\*   "panicked"   callback_update_tickers panicked
\* debit_result / credit_result: what the ledger answered ("ok", "failed"),
\* "pending" while the transfer is with the ledger, "none" if never issued.
\* pred, amount: the caller and the argument of the request; before: reserves,
\* ratio and decimals when the request ran.
Chain(kind, asset, pred, amount, sender, q, next_contract) ==
    [kind |-> kind, asset |-> asset, pred |-> pred, amount |-> amount,
     sender |-> sender,
     debit |-> q.debit, a_after |-> q.a_after, b_after |-> q.b_after,
     contract_id |-> next_contract, payout |-> q.payout,
     stage |-> "debit", debit_result |-> "pending", credit_result |-> "none",
     before |-> <<a_ticker, b_ticker, ratio,
                  a_contract_decimals, b_contract_decimals>>]

\* A public deposit method called by pred with `amount`: `allowed` is its
\* require!, q its locals; it panics, or hands transfer_from(..).then(..) to
\* the host.
Request(op, kind, asset, pred, amount, allowed, q, sender, next_contract) ==
    /\ initialized
    /\ LET ok == allowed /\ ~q.panic
       IN  /\ chains' = IF ok
                        THEN Append(chains, Chain(kind, asset, pred, amount, sender, q,
                                                  next_contract))
                        ELSE chains
           /\ last' = Receipt(op, pred, amount, ok)
    /\ UNCHANGED <<initialized, overflow_checks, pool, info, registered>>

deposit_a(pred, amount) ==
    Request("deposit_a", "swap", "a", pred, amount, TRUE, QuoteA(amount),
            pred, b_contract_id)

deposit_b(pred, amount) ==
    Request("deposit_b", "swap", "b", pred, amount, TRUE, QuoteB(amount),
            pred, a_contract_id)

deposit_a_by_owner(pred, amount) ==
    Request("deposit_a_by_owner", "owner", "a", pred, amount, OwnerOnly(pred),
            OwnerQuoteA(amount), owner_id, "")

deposit_b_by_owner(pred, amount) ==
    Request("deposit_b_by_owner", "owner", "b", pred, amount, OwnerOnly(pred),
            OwnerQuoteB(amount), owner_id, "")

\* callback_ft_deposit.  Either the host runs it for chain i once the ledger
\* has resolved the debit (pred = Current; `resolved` is the promise result,
\* which the method never reads), or pred calls it directly (i = 0).
callback_ft_deposit(pred, i, resolved, a_ticker_after, b_ticker_after, contract_id, receiver_id, amount) ==
    /\ initialized
    /\ IF i = 0 THEN pred # Current /\ resolved = "none"
       ELSE /\ pred = Current
            /\ i \in 1 .. Len(chains)
            /\ chains[i].kind = "swap" /\ chains[i].stage = "debit"
            /\ resolved \in {"ok", "failed"}
            /\ a_ticker_after = chains[i].a_after
            /\ b_ticker_after = chains[i].b_after
            /\ contract_id = chains[i].contract_id
            /\ receiver_id = chains[i].sender
            /\ amount = chains[i].payout
    /\ LET ok == SelfOnly(pred)
           q == [debit |-> 0, a_after |-> a_ticker_after, b_after |-> b_ticker_after,
                 payout |-> amount]
       IN  /\ chains' =
                 IF i = 0
                 THEN IF ok
                      THEN Append(chains, [Chain("swap", "a", pred, 0, receiver_id, q, contract_id)
                                              EXCEPT !.stage = "credit",
                                                     !.debit_result = "none",
                                                     !.credit_result = "pending"])
                      ELSE chains
                 ELSE [chains EXCEPT ![i].debit_result = resolved,
                                     ![i].stage = IF ok THEN "credit" ELSE "panicked",
                                     ![i].credit_result = IF ok THEN "pending" ELSE "none"]
           /\ last' = Receipt("callback_ft_deposit", pred, 0, ok)
    /\ UNCHANGED <<initialized, overflow_checks, pool, info, registered>>

\* reserves written only while both still hold their seeds
FirstCommitWins(a_ticker_after, b_ticker_after) ==
    IF a_ticker = A_TICKER /\ b_ticker = B_TICKER
    THEN <<a_ticker_after, b_ticker_after>>
    ELSE <<a_ticker, b_ticker>>

\* self.a_ticker = a_ticker_after; self.b_ticker = b_ticker_after
update_tickers(a_ticker_after, b_ticker_after) == <<a_ticker_after, b_ticker_after>>

\* callback_update_tickers.  Either the host runs it for chain i once the
\* ledger has resolved the chain's last transfer (pred = Current; `resolved`
\* is the promise result, which the method never reads), or pred calls it
\* directly (i = 0).  A panic of calc_ratio discards the writes.
callback_update_tickers(pred, i, resolved, a_ticker_after, b_ticker_after) ==
    /\ initialized
    /\ IF i = 0 THEN pred # Current /\ resolved = "none"
       ELSE /\ pred = Current
            /\ i \in 1 .. Len(chains)
            /\ chains[i].stage = IF chains[i].kind = "swap" THEN "credit" ELSE "debit"
            /\ resolved \in {"ok", "failed"}
            /\ a_ticker_after = chains[i].a_after
            /\ b_ticker_after = chains[i].b_after
    /\ LET r == calc_ratio(a_ticker_after, a_contract_decimals,
                           b_ticker_after, b_contract_decimals)
           ok == SelfOnly(pred) /\ r # Panic
           w == update_tickers(a_ticker_after, b_ticker_after)
       IN  /\ IF ok
              THEN /\ a_ticker' = w[1]
                   /\ b_ticker' = w[2]
                   /\ ratio' = r
              ELSE UNCHANGED <<a_ticker, b_ticker, ratio>>
           /\ chains' =
                 IF i = 0 THEN chains
                 ELSE [chains EXCEPT
                         ![i].stage = IF ok THEN "committed" ELSE "panicked",
                         ![i].debit_result = IF chains[i].kind = "swap" THEN @ ELSE resolved,
                         ![i].credit_result = IF chains[i].kind = "swap" THEN resolved ELSE @]
           /\ last' = Receipt("callback_update_tickers", pred, 0, ok)
    /\ UNCHANGED <<initialized, overflow_checks, owner_id,
                   a_contract_id, a_contract_name, a_contract_decimals,
                   b_contract_id, b_contract_name, b_contract_decimals,
                   info, registered>>

\* --------------------------------------------------------- specification
Forged == {0, 1}        \* arguments of a directly called continuation
Resolved == {"ok", "failed"}

\* A request that starts a chain needs room for it; one that panics does not.
Room(n, panics) == Len(chains) < n \/ panics

\* new, the continuations called directly by another account, and the reads
Outside ==
    \/ \E pred \in Users, o \in Owners, b \in TokenIds : new(pred, o, TokenA, b)
    \/ \E pred \in Users, t \in TokenIds, d \in DecimalsRange :
          callback_get_info(pred, "none", "none", t, t, d)
    \/ \E pred \in Users, x \in Forged, t \in TokenIds :
          /\ Room(MaxChains, ~SelfOnly(pred))
          /\ callback_ft_deposit(pred, 0, "none", x, x, t, pred, x)
    \/ \E pred \in Users, x \in Forged, y \in Forged :
          callback_update_tickers(pred, 0, "none", x, y)
    \/ \E pred \in Users : get_info(pred)
    \/ \E pred \in Users : get_ratio(pred)

\* the continuations as the host runs them, with the promise result
Host ==
    \/ \E s \in {"a", "b"}, d \in DecimalsRange :
          callback_get_info(Current, s, "ok", info[s].contract_id, info[s].contract_id, d)
    \/ \E s \in {"a", "b"} :
          callback_get_info(Current, s, "failed", info[s].contract_id, "", 0)
    \/ \E i \in 1 .. Len(chains), res \in Resolved :
          callback_ft_deposit(Current, i, res, chains[i].a_after, chains[i].b_after,
                              chains[i].contract_id, chains[i].sender, chains[i].payout)
    \/ \E i \in 1 .. Len(chains), res \in Resolved :
          callback_update_tickers(Current, i, res, chains[i].a_after, chains[i].b_after)

\* the deposit requests with an amount of S, at most n chains in one behaviour
Deposits(n, S) ==
    \/ \E pred \in Users, amount \in S :
          Room(n, QuoteA(amount).panic) /\ deposit_a(pred, amount)
    \/ \E pred \in Users, amount \in S :
          Room(n, QuoteB(amount).panic) /\ deposit_b(pred, amount)
    \/ \E pred \in Callers, amount \in S :
          /\ Room(n, ~OwnerOnly(pred) \/ OwnerQuoteA(amount).panic)
          /\ deposit_a_by_owner(pred, amount)
    \/ \E pred \in Callers, amount \in S :
          /\ Room(n, ~OwnerOnly(pred) \/ OwnerQuoteB(amount).panic)
          /\ deposit_b_by_owner(pred, amount)

Next == Outside \/ Host \/ Deposits(MaxChains, Amounts)

Spec == Init /\ [][Next]_vars

\* Interleaved chains: up to MaxRaceChains requests with an amount of
\* RaceAmounts, the host running every continuation in any order.
NextRace ==
    \/ \E pred \in Users, o \in Owners : new(pred, o, TokenA, TokenB)
    \/ Host
    \/ Deposits(MaxRaceChains, RaceAmounts)

SpecRace == Init /\ [][NextRace]_vars

\* the host delivers the result of the transfer chain i waits for: it runs the
\* continuation chained to that transfer
Deliver(i) ==
    /\ i \in 1 .. Len(chains)
    /\ \E res \in Resolved :
          \/ callback_ft_deposit(Current, i, res, chains[i].a_after, chains[i].b_after,
                                 chains[i].contract_id, chains[i].sender, chains[i].payout)
          \/ callback_update_tickers(Current, i, res, chains[i].a_after, chains[i].b_after)

\* Interleaved chains on a host that delivers the result of every transfer;
\* the ledgers report FairDecimals.
FairDecimals == {0}

NextFair ==
    \/ \E pred \in Users, o \in Owners : new(pred, o, TokenA, TokenB)
    \/ \E s \in {"a", "b"}, d \in FairDecimals :
          callback_get_info(Current, s, "ok", info[s].contract_id, info[s].contract_id, d)
    \/ \E i \in 1 .. MaxRaceChains : Deliver(i)
    \/ Deposits(MaxRaceChains, RaceAmounts)

SpecFair ==
    /\ Init /\ [][NextFair]_vars
    /\ \A i \in 1 .. MaxRaceChains : WF_vars(Deliver(i))

\* ============================================================ properties
RECURSIVE Pow10Exact(_)
\* 10^d over the integers
Pow10Exact(d) == IF d = 0 THEN 1 ELSE 10 * Pow10Exact(d - 1)

Final == {"committed", "panicked"}
Continuations == {"callback_get_info", "callback_ft_deposit", "callback_update_tickers"}

RECURSIVE SumIn(_, _)
\* what the ledger of `asset` confirmed as moved into the pool by chains 1..n
SumIn(n, asset) ==
    IF n = 0 THEN 0
    ELSE SumIn(n - 1, asset)
         + (IF chains[n].asset = asset /\ chains[n].debit_result = "ok"
            THEN chains[n].debit ELSE 0)

RECURSIVE SumOut(_, _)
\* what the ledger of `asset` confirmed as moved out of the pool by chains 1..n
SumOut(n, asset) ==
    IF n = 0 THEN 0
    ELSE SumOut(n - 1, asset)
         + (IF chains[n].kind = "swap" /\ chains[n].asset # asset
               /\ chains[n].credit_result = "ok"
            THEN chains[n].payout ELSE 0)

ConfirmedIn(asset) == SumIn(Len(chains), asset)

ConfirmedOut(asset) == SumOut(Len(chains), asset)

\* C1: when the debit (the first transfer) of the only chain failed and the
\* chain has run out, the reserves are what they were when the chain began.
C1_NoCommitAfterFailedDebit ==
    \A i \in 1 .. Len(chains) :
        (Len(chains) = 1 /\ chains[i].debit_result = "failed"
            /\ chains[i].stage \in Final)
        => /\ a_ticker = chains[i].before[1]
           /\ b_ticker = chains[i].before[2]

\* C2: a swap chain's counter-payment (pool -> sender) has been issued only if
\* its debit (sender -> pool) was confirmed successful.
C2_CreditOnlyAfterDebitOk ==
    \A i \in 1 .. Len(chains) :
        (chains[i].kind = "swap" /\ chains[i].credit_result # "none")
        => chains[i].debit_result = "ok"

\* C3: when the debit of the only swap chain succeeded but its counter-payment
\* failed, the reserves stay what they were when the chain began.
C3_NoCommitAfterFailedCredit ==
    \A i \in 1 .. Len(chains) :
        (Len(chains) = 1 /\ chains[i].kind = "swap"
            /\ chains[i].debit_result = "ok" /\ chains[i].credit_result = "failed")
        => /\ chains[i].stage # "committed"
           /\ a_ticker = chains[i].before[1]
           /\ b_ticker = chains[i].before[2]

\* C4: each reserve minus its seed is at most what its ledger confirmed as
\* moved into the pool and at least minus what it confirmed as moved out; when
\* every chain has run out and no transfer failed, it is the difference.
C4_ReservesCoveredByLedger ==
    initialized =>
        LET da == a_ticker - A_TICKER
            db == b_ticker - B_TICKER
            quiet == \A i \in 1 .. Len(chains) :
                        /\ chains[i].stage \in Final
                        /\ chains[i].debit_result # "failed"
                        /\ chains[i].credit_result # "failed"
        IN  /\ da <= ConfirmedIn("a") /\ da >= 0 - ConfirmedOut("a")
            /\ db <= ConfirmedIn("b") /\ db >= 0 - ConfirmedOut("b")
            /\ quiet => /\ da = ConfirmedIn("a") - ConfirmedOut("a")
                        /\ db = ConfirmedIn("b") - ConfirmedOut("b")

\* C5: in every state a commit or a metadata callback produced, ratio is
\* floor(a_ticker / 10^a_decimals) * floor(b_ticker / 10^b_decimals).
C5_RatioIsProduct ==
    (last.op \in {"callback_update_tickers", "callback_get_info"} /\ last.ok)
    => ratio = (a_ticker \div Pow10Exact(a_contract_decimals))
                 * (b_ticker \div Pow10Exact(b_contract_decimals))

\* the claim of C6 for the commit of owner chain c
OwnerCommitExact(c) ==
    IF c.asset = "a"
    THEN (/\ c.debit = c.amount * Pow10Exact(a_contract_decimals)
          /\ c.a_after = c.before[1] + c.debit)
         => (a_ticker' - a_ticker = c.debit /\ b_ticker' = b_ticker)
    ELSE (/\ c.debit = c.amount * Pow10Exact(b_contract_decimals)
          /\ c.b_after = c.before[2] + c.debit)
         => (b_ticker' - b_ticker = c.debit /\ a_ticker' = a_ticker)

\* C6: the commit of an owner chain changes the deposited reserve by exactly
\* amount * 10^decimals and leaves the other reserve unchanged, comparing the
\* state just before the commit with the state just after it, also when
\* another chain committed after the owner's request.  Taken for the owner
\* chains whose carried debit is exactly amount * 10^decimals and whose carried
\* reserve is the requested one plus the debit.
C6_OwnerDepositConserves ==
    [][\A i \in 1 .. Len(chains) :
          (/\ Len(chains') = Len(chains)
           /\ chains[i].kind = "owner"
           /\ chains[i].stage = "debit"
           /\ chains'[i].stage = "committed")
          => OwnerCommitExact(chains[i])]_vars

\* the quote of C7 over the integers, for the deposit of asset x
QuoteExact(c, amount, x, dx, y, dy, x_after, y_after) ==
    /\ c.debit = amount * Pow10Exact(dx)
    /\ x_after = x + c.debit
    /\ y_after = (ratio \div (x_after \div Pow10Exact(dx))) * Pow10Exact(dy)
    /\ c.payout = y - y_after

\* C7: the chain a successful deposit_a(amount) starts carries
\* debit = amount * 10^a_decimals, a_ticker_after = a_ticker + debit,
\* b_ticker_after = floor(ratio / floor(a_ticker_after / 10^a_decimals))
\* * 10^b_decimals and payout = b_ticker - b_ticker_after; symmetric for
\* deposit_b.
C7_QuoteValues ==
    [][(last'.ok /\ last'.op \in {"deposit_a", "deposit_b"})
        => LET c == chains'[Len(chains')]
           IN  IF last'.op = "deposit_a"
               THEN QuoteExact(c, last'.amount, a_ticker, a_contract_decimals,
                               b_ticker, b_contract_decimals, c.a_after, c.b_after)
               ELSE QuoteExact(c, last'.amount, b_ticker, b_contract_decimals,
                               a_ticker, a_contract_decimals, c.b_after, c.a_after)]_vars

\* the divisor floor(reserve_after / 10^decimals) of the quote is zero
ZeroDivisor(op, amount) ==
    IF op = "deposit_a" THEN QuoteA(amount).divisor = 0
    ELSE QuoteB(amount).divisor = 0

\* C8: a deposit_a or deposit_b whose normalized new reserve
\* floor(reserve_after / 10^decimals) is zero panics: it starts no chain and
\* leaves Pool State unchanged.
C8_ZeroDivisorFails ==
    [][(last'.op \in {"deposit_a", "deposit_b"} /\ ZeroDivisor(last'.op, last'.amount))
        => (~last'.ok /\ UNCHANGED <<pool, chains, info, registered, initialized>>)]_vars

C8_Witness ==
    /\ last.op = "deposit_a" /\ ~last.ok
    /\ ZeroDivisor("deposit_a", last.amount)
    /\ ratio > 0

\* C9: a continuation called by an account other than the contract panics,
\* changes no Pool State field and issues no transfer.
C9_ForeignContinuationFails ==
    [][(last'.op \in Continuations /\ last'.pred # Current)
        => (~last'.ok /\ UNCHANGED <<pool, chains, info, registered, initialized>>)]_vars

C9_Witness ==
    /\ last.op = "callback_update_tickers" /\ last.pred \in Users /\ ~last.ok
    /\ Len(chains) = 1 /\ chains[1].stage = "credit"
    /\ chains[1].a_after # a_ticker

\* C10: deposit_a_by_owner and deposit_b_by_owner called by an account other
\* than owner_id panic, start no chain and leave Pool State unchanged; every
\* owner-deposit chain was started by owner_id.
C10_OwnerOnlyDeposit ==
    /\ [][(last'.op \in {"deposit_a_by_owner", "deposit_b_by_owner"}
              /\ last'.pred # owner_id)
            => (~last'.ok /\ UNCHANGED <<pool, chains, info, registered, initialized>>)]_vars
    /\ [](\A i \in 1 .. Len(chains) :
              chains[i].kind = "owner" => chains[i].pred = owner_id)

C10_Witness ==
    /\ last.op = "deposit_a_by_owner" /\ last.pred # owner_id /\ ~last.ok
    /\ last.amount > 0

\* C11: new called on an initialized instance panics: it hands no call to the
\* host (no metadata fetch, no register_amm, no chain) and leaves every Pool
\* State field as it was.
C11_SecondNewFails ==
    [][(last'.op = "new" /\ initialized)
        => (~last'.ok /\ UNCHANGED <<pool, chains, info, registered, initialized>>)]_vars

C11_Witness ==
    /\ last.op = "new" /\ ~last.ok
    /\ a_contract_name # "" /\ b_contract_name # ""
    /\ a_ticker # A_TICKER

\* reserves, ratio and decimals are what they were when chain c was requested
Undisturbed(c) ==
    c.before = <<a_ticker, b_ticker, ratio, a_contract_decimals, b_contract_decimals>>

\* C12: when a swap chain commits and no other commit and no metadata callback
\* changed the reserves, the ratio or the decimals since its request, the
\* ratio recomputed by the commit is at most the ratio before the deposit.
C12_RatioNotIncreased ==
    [][\A i \in 1 .. Len(chains) :
          (/\ Len(chains') = Len(chains)
           /\ chains[i].kind = "swap"
           /\ chains[i].debit_result # "none"
           /\ chains[i].stage = "credit"
           /\ chains'[i].stage = "committed"
           /\ Undisturbed(chains[i]))
          => ratio' <= chains[i].before[3]]_vars

C12_Witness ==
    /\ Len(chains) = 1 /\ chains[1].kind = "swap" /\ chains[1].stage = "committed"
    /\ last.op = "callback_update_tickers" /\ last.ok
    /\ chains[1].before[3] > 0
    /\ ratio < chains[1].before[3] /\ ratio > 0
    /\ a_ticker = chains[1].a_after /\ b_ticker = chains[1].b_after
    /\ a_contract_decimals = chains[1].before[4]
    /\ b_contract_decimals = chains[1].before[5]

\* C13: the metadata of asset A (name, decimals) changes only in the step that
\* delivers asset A's confirmation, which leaves asset B's metadata alone, and
\* likewise for asset B; so each is written at most once, and while an asset's
\* confirmation is outstanding its metadata is the default ("", 1).
C13_MetadataWrittenOnce ==
    /\ [][initialized =>
            /\ (<<a_contract_name, a_contract_decimals>>'
                    # <<a_contract_name, a_contract_decimals>>)
               => /\ info["a"].stage = "get_info" /\ info'["a"].stage = "done"
                  /\ info'["b"] = info["b"]
                  /\ UNCHANGED <<b_contract_name, b_contract_decimals>>
            /\ (<<b_contract_name, b_contract_decimals>>'
                    # <<b_contract_name, b_contract_decimals>>)
               => /\ info["b"].stage = "get_info" /\ info'["b"].stage = "done"
                  /\ info'["a"] = info["a"]
                  /\ UNCHANGED <<a_contract_name, a_contract_decimals>>]_vars
    /\ [](/\ info["a"].stage = "get_info"
             => (a_contract_name = "" /\ a_contract_decimals = 1)
          /\ info["b"].stage = "get_info"
             => (b_contract_name = "" /\ b_contract_decimals = 1))

\* C14: nothing locks Pool State between a request and its commit: the commit
\* of a chain writes exactly the reserves that chain carries, whatever was
\* committed since its request.  The witness is the race of the claim: two
\* chains quoted against the same reserves and ratio, both committed, and the
\* reserves are those of one chain, the other chain's change being lost.
C14_LastCommitWins ==
    [][\A i \in 1 .. Len(chains) :
          (/\ Len(chains') = Len(chains)
           /\ chains[i].stage \notin Final
           /\ chains'[i].stage = "committed")
          => (a_ticker' = chains[i].a_after /\ b_ticker' = chains[i].b_after)]_vars

C14_Witness ==
    /\ Len(chains) = 2
    /\ chains[1].before = chains[2].before
    /\ chains[1].stage = "committed" /\ chains[2].stage = "committed"
    /\ <<chains[1].a_after, chains[1].b_after>> # <<chains[1].before[1], chains[1].before[2]>>
    /\ <<chains[2].a_after, chains[2].b_after>> # <<chains[2].before[1], chains[2].before[2]>>
    /\ chains[1].a_after # chains[2].a_after /\ chains[1].b_after # chains[2].b_after
    /\ last.op = "callback_update_tickers" /\ last.ok
    /\ a_ticker = chains[1].a_after /\ b_ticker = chains[1].b_after

Requests == {"deposit_a", "deposit_b", "deposit_a_by_owner", "deposit_b_by_owner"}
Reads == {"get_info", "get_ratio"}

\* C15: after initialization only callback_update_tickers and
\* callback_get_info change Pool State; the four deposit requests,
\* callback_ft_deposit, get_info and get_ratio leave every field of it
\* unchanged, and a request that succeeds carries its computed reserves in the
\* chain it starts.
C15_PoolStateFrame ==
    [][/\ (last'.op \in Requests \cup Reads \cup {"callback_ft_deposit"})
          => UNCHANGED pool
       /\ (initialized /\ pool' # pool)
          => last'.op \in {"callback_update_tickers", "callback_get_info"}
       /\ (last'.op \in {"deposit_a", "deposit_b"} /\ last'.ok)
          => LET c == chains'[Len(chains')]
                 q == IF last'.op = "deposit_a" THEN QuoteA(last'.amount)
                      ELSE QuoteB(last'.amount)
             IN  <<c.a_after, c.b_after>> = <<q.a_after, q.b_after>>]_vars

C15_Witness ==
    /\ last.op = "get_ratio" /\ last.ok
    /\ Len(chains) = 1 /\ chains[1].stage = "credit"
    /\ chains[1].a_after # a_ticker /\ chains[1].b_after # b_ticker
    /\ ratio > 0 /\ a_contract_name # ""

\* C16: no step of a chain is retried: a transfer the ledger has answered is
\* never issued again, an owner chain never issues a counter-payment, a chain
\* that committed or panicked never moves again; and a chain whose debit
\* failed issues no further transfer (its counter-payment is never issued).
C16_NoRetry ==
    /\ [][\A i \in 1 .. Len(chains) :
              /\ Len(chains') >= Len(chains)
              /\ chains[i].stage \in Final => chains'[i] = chains[i]
              /\ chains[i].debit_result \in Resolved
                 => chains'[i].debit_result = chains[i].debit_result
              /\ chains[i].credit_result \in Resolved
                 => chains'[i].credit_result = chains[i].credit_result
              /\ chains[i].kind = "owner" => chains'[i].credit_result = "none"]_vars
    /\ [](\A i \in 1 .. Len(chains) :
              chains[i].debit_result = "failed" => chains[i].credit_result = "none")

\* a chain moves only in a step that delivers a result to it, alone
MovesOnlyOnDelivery ==
    \A i \in 1 .. Len(chains) :
        (chains'[i] # chains[i])
        => (/\ last'.op \in {"callback_ft_deposit", "callback_update_tickers"}
            /\ last'.pred = Current
            /\ \A j \in 1 .. Len(chains) : (j # i) => (chains'[j] = chains[j]))

\* the reserves change only in a step that commits a chain
ReservesOnlyOnCommit ==
    (<<a_ticker, b_ticker>>' # <<a_ticker, b_ticker>> /\ initialized)
    => \E i \in 1 .. Len(chains) :
          chains[i].stage \notin Final /\ chains'[i].stage = "committed"

\* C17: on a host that delivers the result of every transfer, every chain
\* that was started eventually is committed or has panicked; and a chain moves
\* only in the step that delivers a result to it, and Pool State is changed
\* by a chain only in the step that commits it, so a chain whose result is
\* never delivered stays where it is and changes nothing.  The witness is a
\* second chain started and committed while the first is still waiting.
C17_ChainsTerminate ==
    /\ \A i \in 1 .. MaxRaceChains :
          (Len(chains) >= i) ~> (Len(chains) >= i /\ chains[i].stage \in Final)
    /\ [][MovesOnlyOnDelivery /\ ReservesOnlyOnCommit]_vars

C17_Witness ==
    /\ Len(chains) = 2
    /\ chains[1].stage = "debit" /\ chains[1].debit_result = "pending"
    /\ chains[2].stage = "committed"
    /\ chains[2].before = chains[1].before
    /\ <<a_ticker, b_ticker>> = <<chains[2].a_after, chains[2].b_after>>
    /\ <<a_ticker, b_ticker>> # <<chains[1].before[1], chains[1].before[2]>>

\* C18: the chain a successful deposit_a starts carries b_ticker_after <=
\* b_ticker and payout = b_ticker - b_ticker_after over the integers (no
\* underflow); a successful deposit_b likewise carries a_ticker_after <=
\* a_ticker and payout = a_ticker - a_ticker_after.
C18_PayoutNoUnderflow ==
    [][(last'.ok /\ last'.op \in {"deposit_a", "deposit_b"})
        => LET c == chains'[Len(chains')]
           IN  IF last'.op = "deposit_a"
               THEN c.b_after <= b_ticker /\ c.payout = b_ticker - c.b_after
               ELSE c.a_after <= a_ticker /\ c.payout = a_ticker - c.a_after]_vars

\* no metadata callback has written yet (none delivered, or those delivered
\* failed)
NoMetadataYet ==
    initialized /\ info["a"].stage # "done" /\ info["b"].stage # "done"

\* no chain has committed yet
NoCommitYet == \A i \in 1 .. Len(chains) : chains[i].stage # "committed"

\* the reserves are the seeds, both decimals are 1 and the ratio is 0
SeedState ==
    /\ a_ticker = A_TICKER /\ b_ticker = B_TICKER
    /\ a_contract_decimals = 1 /\ b_contract_decimals = 1
    /\ ratio = 0

\* the step is a successful deposit_a or deposit_b whose chain carries
\* counter-reserve_after = 0 and the whole counter-asset reserve as payout
QuotesWholeReserve ==
    (last'.ok /\ last'.op \in {"deposit_a", "deposit_b"})
    => LET c == chains'[Len(chains')]
       IN  IF last'.op = "deposit_a"
           THEN c.b_after = 0 /\ c.payout = b_ticker
           ELSE c.a_after = 0 /\ c.payout = a_ticker

\* C19 as stated: as long as no metadata callback has written, the reserves
\* are the seeds, both decimals are 1 and the ratio is 0, and every deposit_a
\* or deposit_b accepted then quotes counter-reserve_after = 0 and pays out the
\* whole counter-asset reserve.
C19_SeedWindowUntilMetadata ==
    /\ [](NoMetadataYet => SeedState)
    /\ [][NoMetadataYet => QuotesWholeReserve]_vars

\* C19 amended: the same, as long as no metadata callback has written and no
\* chain has committed.
C19_SeedWindowUntilFirstWrite ==
    /\ []((NoMetadataYet /\ NoCommitYet) => SeedState)
    /\ [][(NoMetadataYet /\ NoCommitYet) => QuotesWholeReserve]_vars

C19_Witness ==
    /\ info["a"].stage = "panicked" /\ info["b"].stage = "panicked"
    /\ last.op = "deposit_b" /\ last.ok /\ last.amount > 0
    /\ Len(chains) = 1 /\ chains[1].stage = "debit"
    /\ chains[1].a_after = 0 /\ chains[1].payout = A_TICKER

\* the metadata and the ratio of Pool State
Meta ==
    [an |-> a_contract_name, ad |-> a_contract_decimals,
     bn |-> b_contract_name, bd |-> b_contract_decimals, ratio |-> ratio]

\* Meta after the host ran callback_get_info(contract_id, (name, decimals))
\* on a Pool State with metadata and ratio st and the current reserves; st
\* itself if calc_ratio panics
Confirm(st, contract_id, name, decimals) ==
    LET an == IF contract_id = a_contract_id THEN name ELSE st.an
        ad == IF contract_id = a_contract_id THEN decimals ELSE st.ad
        isB == contract_id # a_contract_id /\ contract_id = b_contract_id
        bn == IF isB THEN name ELSE st.bn
        bd == IF isB THEN decimals ELSE st.bd
        r == calc_ratio(a_ticker, ad, b_ticker, bd)
    IN  IF r = Panic THEN st
        ELSE [an |-> an, ad |-> ad, bn |-> bn, bd |-> bd, ratio |-> r]

====
